---- MODULE Spec2Model ----
(***************************************************************************)
(* Stochastic Parametrized Expectations Algorithm of PEA_ncgm.ipynb:       *)
(* the shock simulation, the Hermite basis (hermterms, hermpoly) and the   *)
(* main fixed-point loop over the coefficient vector psi.                  *)
(*                                                                         *)
(* Number representation.                                                  *)
(*  - psi, psi_out are exact fixed-point numbers in units of 1/Unit, with  *)
(*    Unit = LrateDen^maxiter, so that maxiter damped updates with         *)
(*    lrate = n/LrateDen are computed without rounding.                    *)
(*  - lnz, epsi are exact fixed-point numbers in units of 1/ZUnit, with    *)
(*    ZUnit = RhoDen^(MaxT-1), so that the AR(1) recurrence with           *)
(*    rho = RhoNum/RhoDen is computed without rounding.                    *)
(*  - delpsi holds the SQUARE of the Euclidean norm (the square root is    *)
(*    not an integer); "delpsi < psitol" is compared on the squares.       *)
(*  - k, lnk, c are IEEE doubles produced by exp, log and fractional       *)
(*    powers.  Such a value is a record [cls, t]: its IEEE class and the   *)
(*    time step whose assignment produced it; c[t] also records the state  *)
(*    point x the basis was evaluated at and the psi it was combined with. *)
(*    The class of a result is every class IEEE arithmetic can give for    *)
(*    operands of the given classes.                                       *)
(*  - In the Hermite specification x is an integer and the recurrence is   *)
(*    computed exactly.                                                    *)
(* Python arrays are sequences; array index i is sequence index i+1.       *)
(***************************************************************************)
EXTENDS Integers, Sequences, FiniteSets, TLC

VARIABLES
    T, T1, lrate,          \* run parameters: length, first observation, lrate numerator
    epsi, lnz, z,          \* shock simulation
    c, k, lnk,             \* trajectory arrays
    psi, psi_out, delpsi,  \* coefficients, fitted candidate, squared norm of their difference
    psiter, t, pc,         \* loop variables and program position
    Y, X,                  \* regression sample
    hporder, hx, hcall, hret   \* a call of hermterms / hermpoly: arguments, callee, result

vars == <<T, T1, lrate, epsi, lnz, z, c, k, lnk, psi, psi_out, delpsi,
          psiter, t, pc, Y, X, hporder, hx, hcall, hret>>

loopvars == <<T, T1, lrate, epsi, lnz, z, c, k, lnk, psi, psi_out, delpsi,
              psiter, t, pc, Y, X>>

hermvars == <<hporder, hx, hcall, hret>>

------------------------------------------------------------------------------
(* Bounds of the model *)

MaxT == 4
\* number of passes of the outer loop
maxiter == 2
\* largest polynomial order passed to hermterms / hermpoly
MaxOrder == 3
\* arguments x of the Hermite polynomials range over -MaxX..MaxX
MaxX == 2

(* Program constants *)

RhoNum == 19
RhoDen == 20
LrateNum == 7
LrateDen == 10
porder_k == 1
porder_z == 1

RECURSIVE Pow(_, _)
Pow(b, e) == IF e = 0 THEN 1 ELSE b * Pow(b, e - 1)

Unit == Pow(LrateDen, maxiter)
ZUnit == Pow(RhoDen, MaxT - 1)

\* psitol, in units of 1/Unit.  The grid of the model is coarser than 1e-6,
\* so the tolerance is scaled with it: 0.5.
psitol == Unit \div 2

\* the noise draws epsi = np.random.randn(T,1)*sigma, in units of 1/ZUnit:
\* no noise, a constant draw, and the two alternating sequences
NoisePaths(n) ==
    {[j \in 1..n |-> 0], [j \in 1..n |-> ZUnit],
     [j \in 1..n |-> (j % 2) * ZUnit], [j \in 1..n |-> ((j + 1) % 2) * ZUnit]}

Min(a, b) == IF a < b THEN a ELSE b
Max(a, b) == IF a > b THEN a ELSE b

------------------------------------------------------------------------------
(* numpy helpers *)

\* a[i] for a Python index 0 <= i < len(a)
At(a, i) == a[i + 1]

\* a[lo:hi], Python slice semantics: negative indices count from the end,
\* out-of-range indices are clipped, an empty range gives an empty array
PyIndex(n, i) == IF i < 0 THEN Max(i + n, 0) ELSE Min(i, n)
PySlice(a, lo, hi) ==
    LET n == Len(a)
        l == PyIndex(n, lo)
        h == PyIndex(n, hi)
    IN  [j \in 1..Max(h - l, 0) |-> a[l + j]]

\* np.zeros(n), as doubles
F(cls, at) == [cls |-> cls, t |-> at]
ZeroF == F("zero", -1)
zeros(n) == [j \in 1..n |-> ZeroF]

\* np.log(k): class of the result
LogCls(kc) ==
    CASE kc = "pos"  -> "fin"
      [] kc = "zero" -> "ninf"
      [] OTHER       -> "nan"
np_log(v) == F(LogCls(v.cls), v.t)

\* np.exp(lnz), lnz finite
np_exp(v) == [exp |-> v]

------------------------------------------------------------------------------
(* Hermite basis *)

\* the j-loop of hermterms on one row: hx[j] = x*hx[j-1] - j*hx[j-2], j = 2..porder
RECURSIVE HermFill(_, _, _, _)
HermFill(row, xv, j, porder) ==
    IF j > porder THEN row
    ELSE HermFill([row EXCEPT ![j + 1] = xv * row[j] - j * row[j - 1]], xv, j + 1, porder)

Ret(val) == [exc |-> "none", val |-> val]
Raise(e) == [exc |-> e, val |-> <<>>]

\* hermterms(porder, x), x a 1-d array: one row of porder+1 terms per element of x.
\* hx has porder+1 columns; hx[:,1] = x raises IndexError when there is no column 1.
hermterms(porder, x) ==
    IF 1 >= porder + 1 THEN Raise("IndexError")
    ELSE Ret([r \in 1..Len(x) |->
                HermFill([[j \in 1..(porder + 1) |-> 1] EXCEPT ![2] = x[r]],
                         x[r], 2, porder)])

\* the jk, jz loops of hermpoly on one row, the pair (jk, jz) numbered n = jk*(pz+1)+jz
RECURSIVE PolyFill(_, _, _, _, _, _)
PolyFill(row, hkr, hzr, jk, jz, porder) ==
    IF jk > porder[1] THEN row
    ELSE IF jz > porder[2] THEN PolyFill(row, hkr, hzr, jk + 1, 0, porder)
    ELSE PolyFill([row EXCEPT ![jk * (porder[2] + 1) + jz + 1] = hkr[jk + 1] * hzr[jz + 1]],
                  hkr, hzr, jk, jz + 1, porder)

\* hermpoly(porder, x), x an array of rows (k_j, z_j)
hermpoly(porder, x) ==
    LET hk == hermterms(porder[1], [r \in 1..Len(x) |-> x[r][1]])
        hz == hermterms(porder[2], [r \in 1..Len(x) |-> x[r][2]])
    IN  IF hk.exc # "none" THEN hk
        ELSE IF hz.exc # "none" THEN hz
        ELSE Ret([r \in 1..Len(x) |->
                    PolyFill([n \in 1..((porder[1] + 1) * (porder[2] + 1)) |-> 0],
                             hk.val[r], hz.val[r], 0, 0, porder)])

\* In the main loop the state point is a pair of doubles: the row
\* hermpoly([porder_k, porder_z], x) gives for it is kept as the basis
\* orders and the point it is evaluated at.
BasisAt(x) == [porder |-> <<porder_k, porder_z>>, at |-> x]

------------------------------------------------------------------------------
(* Shock simulation *)

\* ShockStep with the noise of the period before: rho*lnz[t-1] + epsi[t-1]
ShockStepLagged ==
    /\ pc = "shock"
    /\ t < T
    /\ lnz' = [lnz EXCEPT ![t + 1] = (RhoNum * At(lnz, t - 1)) \div RhoDen + At(epsi, t - 1)]
    /\ t' = t + 1
    /\ UNCHANGED <<T, T1, lrate, epsi, z, c, k, lnk, psi, psi_out, delpsi, psiter, pc, Y, X>>
    /\ UNCHANGED hermvars

\* lnz[t] = rho*lnz[t-1] + epsi[t]
ShockStep ==
    /\ pc = "shock"
    /\ t < T
    /\ lnz' = [lnz EXCEPT ![t + 1] = (RhoNum * At(lnz, t - 1)) \div RhoDen + At(epsi, t)]
    /\ t' = t + 1
    /\ UNCHANGED <<T, T1, lrate, epsi, z, c, k, lnk, psi, psi_out, delpsi, psiter, pc, Y, X>>
    /\ UNCHANGED hermvars

\* z = np.exp(lnz); then the arrays and psi of the main loop are initialised
ShockExp ==
    /\ pc = "shock"
    /\ t = T
    /\ z' = [j \in 1..T |-> np_exp(lnz[j])]
    /\ pc' = "loop"
    /\ UNCHANGED <<T, T1, lrate, epsi, lnz, c, k, lnk, psi, psi_out, delpsi, psiter, t, Y, X>>
    /\ UNCHANGED hermvars

------------------------------------------------------------------------------
(* Main loop *)

k_ss == F("pos", 0)

\* class of c[t] = np.exp(-np.dot(polynomial,psi)/nu) given the class of lnk[t-1]:
\* a finite point gives a positive c; lnk = -inf makes the dot product +inf, -inf
\* or nan; nan propagates
ExpCls(lc) ==
    CASE lc = "fin"  -> {"pos"}
      [] lc = "ninf" -> {"zero", "inf", "nan"}
      [] OTHER       -> {"nan"}

\* class of k[t] = z[t]*k[t-1]**alpha + (1-delta)*k[t-1] - c[t] given the classes
\* of k[t-1] and c[t]: resources minus consumption has any sign; a negative
\* base under a fractional power is nan; nan propagates
CapitalCls(kc, cc) ==
    CASE kc = "pos" /\ cc = "pos"   -> {"pos", "zero", "neg"}
      [] kc = "zero" /\ cc = "zero" -> {"zero"}
      [] kc = "zero" /\ cc = "inf"  -> {"ninf"}
      [] OTHER                      -> {"nan"}

\* LoopEnter with the range one pass too long
LoopEnterOneMore ==
    /\ pc = "loop"
    /\ psiter + 1 < maxiter + 1
    /\ psiter' = psiter + 1
    /\ k' = [k EXCEPT ![1] = k_ss]
    /\ lnk' = [lnk EXCEPT ![1] = np_log(k_ss)]
    /\ t' = 1
    /\ pc' = "sim"
    /\ UNCHANGED <<T, T1, lrate, epsi, lnz, z, c, psi, psi_out, delpsi, Y, X>>
    /\ UNCHANGED hermvars

\* for psiter in range(maxiter): the next pass begins
LoopEnter ==
    /\ pc = "loop"
    /\ psiter + 1 < maxiter
    /\ psiter' = psiter + 1
    /\ k' = [k EXCEPT ![1] = k_ss]
    /\ lnk' = [lnk EXCEPT ![1] = np_log(k_ss)]
    /\ t' = 1
    /\ pc' = "sim"
    /\ UNCHANGED <<T, T1, lrate, epsi, lnz, z, c, psi, psi_out, delpsi, Y, X>>
    /\ UNCHANGED hermvars

\* for psiter in range(maxiter): the range is exhausted
LoopExhausted ==
    /\ pc = "loop"
    /\ ~(psiter + 1 < maxiter)
    /\ pc' = "done"
    /\ UNCHANGED <<T, T1, lrate, epsi, lnz, z, c, k, lnk, psi, psi_out, delpsi, psiter, t, Y, X>>
    /\ UNCHANGED hermvars

\* one step of: for t in range(1,T)
SimStep ==
    /\ pc = "sim"
    /\ t < T
    /\ LET lnk1 == [lnk EXCEPT ![t] = np_log(At(k, t - 1))]
           x == <<At(lnk1, t - 1), At(lnz, t - 1)>>
           polynomial == BasisAt(x)
       IN  \E cc \in ExpCls(x[1].cls) :
           \E kc \in CapitalCls(At(k, t - 1).cls, cc) :
              /\ lnk' = lnk1
              /\ c' = [c EXCEPT ![t + 1] =
                         [cls |-> cc, t |-> t, poly |-> polynomial, psi |-> psi]]
              /\ k' = [k EXCEPT ![t + 1] = F(kc, t)]
    /\ t' = t + 1
    /\ UNCHANGED <<T, T1, lrate, epsi, lnz, z, psi, psi_out, delpsi, psiter, pc, Y, X>>
    /\ UNCHANGED hermvars

\* beta*c**(-nu)*(alpha*z*(k**(alpha-1))+1-delta), one element
EulerRHS(cv, zv, kv) == [c |-> cv, z |-> zv, k |-> kv]

\* the operands of Y: c[T1:T], z[T1:T], k[T1-1:T-1]
SampleYArgs == <<PySlice(c, T1, T), PySlice(z, T1, T), PySlice(k, T1 - 1, T - 1)>>

\* SampleXArgs with the shock lagged like the capital: lnz[T1-2:T-2]
SampleXArgsLagged == <<PySlice(lnk, T1 - 2, T - 2), PySlice(lnz, T1 - 2, T - 2)>>

\* the operands of x: lnk[T1-2:T-2], lnz[T1-1:T-1]
SampleXArgs == <<PySlice(lnk, T1 - 2, T - 2), PySlice(lnz, T1 - 1, T - 1)>>

\* Y, x and X: the regression sample.  Operands of unequal length do not
\* broadcast, and rows of unequal length make no 2-d array: the cell raises.
BuildSample ==
    /\ pc = "sim"
    /\ t = T
    /\ LET ya == SampleYArgs
           xa == SampleXArgs
       IN  IF ~(Len(ya[1]) = Len(ya[2]) /\ Len(ya[2]) = Len(ya[3]))
           THEN /\ pc' = "raised"
                /\ UNCHANGED <<Y, X>>
           ELSE /\ Y' = [n \in 1..Len(ya[1]) |-> EulerRHS(ya[1][n], ya[2][n], ya[3][n])]
                /\ IF Len(xa[1]) # Len(xa[2])
                   THEN /\ pc' = "raised"
                        /\ UNCHANGED X
                   ELSE /\ X' = [n \in 1..Len(xa[1]) |-> BasisAt(<<xa[1][n], xa[2][n]>>)]
                        /\ pc' = "fit"
    /\ UNCHANGED <<T, T1, lrate, epsi, lnz, z, c, k, lnk, psi, psi_out, delpsi, psiter, t>>
    /\ UNCHANGED hermvars

\* np.linalg.norm(a-b), squared
SqNorm(a, b) ==
    (a[1] - b[1]) * (a[1] - b[1]) + (a[2] - b[2]) * (a[2] - b[2])
    + (a[3] - b[3]) * (a[3] - b[3]) + (a[4] - b[4]) * (a[4] - b[4])

\* what opt.minimize(rss, psi, ...).x can be: the minimiser is an external
\* library run on real-valued data, so its result is any point of a small set,
\* the starting point included
PsiCands == {<<0, 0, 0, 0>>, <<2 * Unit, Unit, 0, 0>>}

\* results = opt.minimize(...); psi_out = results.x; delpsi = norm(psi-psi_out)
Fit ==
    /\ pc = "fit"
    /\ \E out \in PsiCands \cup {psi} :
          /\ psi_out' = out
          /\ delpsi' = SqNorm(psi, out)
    /\ pc' = "test"
    /\ UNCHANGED <<T, T1, lrate, epsi, lnz, z, c, k, lnk, psi, psiter, t, Y, X>>
    /\ UNCHANGED hermvars

\* delpsi < psitol, on the squares
BelowTol == delpsi < psitol * psitol

\* Converge with the fitted candidate taken over before the break
ConvergeTakingCandidate ==
    /\ pc = "test"
    /\ BelowTol
    /\ psi' = psi_out
    /\ pc' = "done"
    /\ UNCHANGED <<T, T1, lrate, epsi, lnz, z, c, k, lnk, psi_out, delpsi, psiter, t, Y, X>>
    /\ UNCHANGED hermvars

\* if delpsi < psitol: break
Converge ==
    /\ pc = "test"
    /\ BelowTol
    /\ pc' = "done"
    /\ UNCHANGED <<T, T1, lrate, epsi, lnz, z, c, k, lnk, psi, psi_out, delpsi, psiter, t, Y, X>>
    /\ UNCHANGED hermvars

\* Damped with the weights exchanged: lrate * psi + (1-lrate) * psi_out
DampedSwapped == [i \in 1..4 |-> (lrate * psi[i] + (LrateDen - lrate) * psi_out[i]) \div LrateDen]

\* lrate * psi_out + (1-lrate) * psi
Damped == [i \in 1..4 |-> (lrate * psi_out[i] + (LrateDen - lrate) * psi[i]) \div LrateDen]

\* else: psi = lrate * psi_out + (1-lrate)*psi
Update ==
    /\ pc = "test"
    /\ ~BelowTol
    /\ psi' = Damped
    /\ pc' = "loop"
    /\ UNCHANGED <<T, T1, lrate, epsi, lnz, z, c, k, lnk, psi_out, delpsi, psiter, t, Y, X>>
    /\ UNCHANGED hermvars

------------------------------------------------------------------------------
(* Calls of the Hermite functions *)

NoRet == Raise("not called")

CallHermterms ==
    /\ hcall = "none"
    /\ hcall' = "hermterms"
    /\ hret' = hermterms(hporder[1], [r \in 1..Len(hx) |-> hx[r][1]])
    /\ UNCHANGED <<hporder, hx>>
    /\ UNCHANGED loopvars

CallHermpoly ==
    /\ hcall = "none"
    /\ hcall' = "hermpoly"
    /\ hret' = hermpoly(hporder, hx)
    /\ UNCHANGED <<hporder, hx>>
    /\ UNCHANGED loopvars

------------------------------------------------------------------------------
(* Specifications *)

\* the initial psi, 1.0 in the first coefficient
psi0 == <<Unit, 0, 0, 0>>

\* the state after lnz = np.zeros(T); lnz[0] = 0
InitLoop ==
    /\ T \in 3..MaxT
    /\ T1 \in 1..(T - 1)
    /\ lrate \in {LrateNum, LrateDen}
    /\ epsi \in NoisePaths(T)
    /\ lnz = [j \in 1..T |-> 0]
    /\ z = <<>>
    /\ c = zeros(T)
    /\ k = zeros(T)
    /\ lnk = zeros(T)
    /\ psi = psi0
    /\ psi_out = psi0
    /\ delpsi = -1
    /\ psiter = -1
    /\ t = 1
    /\ pc = "shock"
    /\ Y = <<>>
    /\ X = <<>>

Init ==
    /\ InitLoop
    /\ hporder = <<porder_k, porder_z>>
    /\ hx = <<>>
    /\ hcall = "loop"
    /\ hret = NoRet

Next ==
    \/ ShockStep
    \/ ShockExp
    \/ LoopEnter
    \/ SimStep
    \/ BuildSample
    \/ Fit
    \/ Converge
    \/ Update
    \/ LoopExhausted

Spec == Init /\ [][Next]_vars

\* every cell runs to its end: each step that is enabled is eventually taken
FairSpec == Spec /\ WF_vars(Next)

Points == (-MaxX..MaxX) \X (-MaxX..MaxX)

\* the state in which the cell defining hermterms and hermpoly has run and
\* one of them is called on an array of one or two rows
InitHerm ==
    /\ hporder \in (0..MaxOrder) \X (0..MaxOrder)
    /\ hx \in {<<p>> : p \in Points} \cup {<<p, <<1, -1>>>> : p \in Points}
    /\ hcall = "none"
    /\ hret = NoRet
    /\ T = 3
    /\ T1 = 2
    /\ lrate = LrateNum
    /\ epsi = [j \in 1..3 |-> 0]
    /\ lnz = [j \in 1..3 |-> 0]
    /\ z = [j \in 1..3 |-> np_exp(0)]
    /\ c = zeros(3)
    /\ k = zeros(3)
    /\ lnk = zeros(3)
    /\ psi = psi0
    /\ psi_out = psi0
    /\ delpsi = -1
    /\ psiter = -1
    /\ t = 3
    /\ pc = "defs"
    /\ Y = <<>>
    /\ X = <<>>

NextHerm ==
    \/ CallHermterms
    \/ CallHermpoly

SpecHerm == InitHerm /\ [][NextHerm]_vars

------------------------------------------------------------------------------
(* Properties of the main loop *)

\* the loop was left by break / by exhausting range(maxiter)
Converged == pc = "done" /\ BelowTol
Exhausted == pc = "done" /\ ~BelowTol

\* the time steps written by a pass
Steps == 1..(T - 1)

\* the trajectory now in c was simulated with the coefficients p
SimulatedWith(p) == \A s \in Steps : At(c, s).psi = p

\* C1, as claimed: when a pass has delta < tolerance the loop stops converged
\* and the psi it ends with is the candidate psi_out fitted in that pass.
C1_EndsWithCandidate == Converged => psi = psi_out

\* C1, amended: when a pass has delta < tolerance the loop stops at once
\* (break) and psi is left unchanged: it ends as the psi the pass was
\* simulated with; the candidate fitted in that pass is kept in psi_out, at
\* distance delpsi < psitol from psi.
C1_EndsWithCurrent ==
    /\ [](Converged => /\ SimulatedWith(psi)
                       /\ SqNorm(psi, psi_out) = delpsi)
    /\ [][(pc = "test" /\ BelowTol) =>
             (pc' = "done" /\ psi' = psi /\ psi_out' = psi_out /\ delpsi' = delpsi)]_vars

C1_Witness == Converged /\ psi # psi_out /\ psiter = 1

BadCapital(v) == v.cls \in {"zero", "neg", "ninf"}
NonFinite(v) == v.cls \in {"nan", "inf"}
InvalidAt(s) == BadCapital(At(k, s)) \/ NonFinite(At(c, s))

\* C2, as claimed: a pass whose simulated capital[t] is <= 0 or whose
\* consumption[t] is not finite at some t never reaches the construction of
\* the regression sample nor the fitter: once the sample is built (pc = "fit")
\* or the fitter has run (pc = "test"), or psi has been updated from it, the
\* trajectory holds no such value.
C2_InvalidTrajectoryNeverFitted ==
    (pc \in {"fit", "test"} \/ (pc = "loop" /\ psiter >= 0)) =>
        \A s \in Steps : ~InvalidAt(s)

\* C3: the loop makes at most maxiter passes and ends; when it ends by
\* exhausting its range the last delta is not below the tolerance (which a
\* convergent end has), psiter is the last pass, psi is the last damped
\* update and delpsi the delta that update was made from.
C3_Terminates ==
    /\ <>(pc \in {"done", "raised"})
    /\ [](psiter < maxiter)
    /\ [](Exhausted =>
            /\ psiter = maxiter - 1
            /\ LrateDen * LrateDen * SqNorm(psi, psi_out)
                  = (LrateDen - lrate) * (LrateDen - lrate) * delpsi)
    /\ [][(pc = "loop" /\ pc' = "done") =>
             (~BelowTol /\ psi' = psi /\ delpsi' = delpsi)]_vars
    /\ [][(pc = "test" /\ pc' = "done") => BelowTol]_vars

C3_Witness == Exhausted /\ psiter = maxiter - 1 /\ psi # psi0

\* C4: in a pass that does not converge psi is replaced once, by
\* lrate*psi_out + (1-lrate)*psi, psi being the coefficients the pass was
\* simulated with and delpsi the distance of psi_out from that same psi; with
\* lrate = 1 the new psi is psi_out; control returns to the head of the loop,
\* which begins the next pass while passes remain; no other step changes psi.
C4_DampedUpdate ==
    /\ [][(pc = "test" /\ ~BelowTol) =>
            /\ \A i \in 1..4 :
                  LrateDen * psi'[i] = lrate * psi_out[i] + (LrateDen - lrate) * psi[i]
            /\ SimulatedWith(psi)
            /\ delpsi = SqNorm(psi, psi_out)
            /\ (lrate = LrateDen => psi' = psi_out)
            /\ pc' = "loop"]_vars
    /\ [][psi' # psi => (pc = "test" /\ ~BelowTol)]_vars
    /\ [][(pc = "loop" /\ psiter >= 0 /\ psiter + 1 < maxiter) =>
             (pc' = "sim" /\ psiter' = psiter + 1 /\ psi' = psi)]_vars

C4_Witness ==
    /\ pc = "sim"
    /\ psiter = 1
    /\ lrate = LrateNum
    /\ psi # psi_out
    /\ psi # psi0

\* C8: for 2 <= T1 < T the sample has T - T1 rows in Y and in X, and for
\* every i in T1-1 .. T-2 the target is built from c[i+1], z[i+1], k[i] and
\* the row of X paired with it is the basis at (lnk[i-1], lnz[i]).
C8_SampleAlignment ==
    (pc \in {"fit", "test"} /\ 2 <= T1 /\ T1 < T) =>
        /\ Len(Y) = T - T1
        /\ Len(X) = T - T1
        /\ \A i \in (T1 - 1)..(T - 2) :
              /\ Y[i - T1 + 2] = EulerRHS(At(c, i + 1), At(z, i + 1), At(k, i))
              /\ X[i - T1 + 2] = BasisAt(<<At(lnk, i - 1), At(lnz, i)>>)

C8_Witness == pc = "fit" /\ T - T1 >= 2 /\ At(lnz, T1 - 1) # At(lnz, T1 - 2)

\* C9: once built, the shock path has lnz[0] = 0,
\* lnz[t] = rho*lnz[t-1] + epsi[t] for 1 <= t < T and z = exp(lnz), and no
\* step of the main loop changes lnz or z.
C9_ShockPathFixed ==
    /\ [](pc # "shock" =>
            /\ Len(lnz) = T
            /\ Len(z) = T
            /\ At(lnz, 0) = 0
            /\ \A s \in 1..(T - 1) :
                  RhoDen * At(lnz, s) = RhoNum * At(lnz, s - 1) + RhoDen * At(epsi, s)
            /\ \A s \in 0..(T - 1) : At(z, s) = np_exp(At(lnz, s)))
    /\ [][pc # "shock" => (lnz' = lnz /\ z' = z)]_vars

C9_Witness == pc = "done" /\ psiter = 1 /\ At(lnz, 1) # 0 /\ At(lnz, 2) # At(lnz, 1)

\* C10, as claimed: for every period i of the regression window, the state
\* point at which the basis was evaluated to produce c[i] in the simulation
\* is the point of the row of X paired with the target built from c[i+1].
C10_SameStatePoint ==
    pc \in {"fit", "test"} =>
        \A i \in (T1 - 1)..(T - 2) : At(c, i).poly = X[i - T1 + 2]

------------------------------------------------------------------------------
(* Properties of the Hermite basis *)

\* the x of the rows passed to hermterms
hxk == [r \in 1..Len(hx) |-> hx[r][1]]
hxz == [r \in 1..Len(hx) |-> hx[r][2]]

\* C5, as claimed: for every order >= 2 the terms returned by hermterms
\* satisfy H_0 = 1, H_1 = x, H_{j+1} = x*H_j - j*H_{j-1} for 1 <= j < order.
C5_Recurrence ==
    (hcall = "hermterms" /\ hporder[1] >= 2) =>
        /\ hret.exc = "none"
        /\ \A r \in 1..Len(hx) :
              LET H == hret.val[r]
              IN  /\ H[1] = 1
                  /\ H[2] = hxk[r]
                  /\ \A j \in 1..(hporder[1] - 1) :
                        H[j + 2] = hxk[r] * H[j + 1] - j * H[j]

\* C6, as claimed: for every order >= 0 hermterms returns, without error,
\* order+1 terms; [1] for order 0 and [1, x] for order 1.
C6_Length ==
    hcall = "hermterms" =>
        /\ hret.exc = "none"
        /\ \A r \in 1..Len(hx) :
              /\ Len(hret.val[r]) = hporder[1] + 1
              /\ (hporder[1] = 0 => hret.val[r] = <<1>>)
              /\ (hporder[1] = 1 => hret.val[r] = <<1, hxk[r]>>)

\* C7, as claimed: for every pair of orders (ok, oz) and every row, hermpoly
\* gives (ok+1)*(oz+1) columns and column jk*(oz+1)+jz is
\* hermterms(ok, k)[jk] * hermterms(oz, z)[jz].
C7_TensorLayout ==
    hcall = "hermpoly" =>
        /\ hret.exc = "none"
        /\ hermterms(hporder[1], hxk).exc = "none"
        /\ hermterms(hporder[2], hxz).exc = "none"
        /\ \A r \in 1..Len(hx) :
              /\ Len(hret.val[r]) = (hporder[1] + 1) * (hporder[2] + 1)
              /\ \A jk \in 0..hporder[1] : \A jz \in 0..hporder[2] :
                    At(hret.val[r], jk * (hporder[2] + 1) + jz)
                    = At(hermterms(hporder[1], hxk).val[r], jk)
                      * At(hermterms(hporder[2], hxz).val[r], jz)

====
